---- MODULE Spec2Model ----
(***************************************************************************)
(* A model of torch/profiler/_utils.py: EventKey.intervals_overlap and     *)
(* BasicEvaluation (compute_self_time, compute_queue_depth,                *)
(* compute_idle_time, rank_events) with the helpers index_of_first_match   *)
(* and argmax.                                                             *)
(*                                                                         *)
(* A trace is a forest of host events (times in ns) and a flat list of     *)
(* device events (times in us, as the code reads them through start_us()). *)
(* Python's 0-based indices are kept as values (kernel indices, scan       *)
(* indices); a sequence s is read at s[k + 1].  An Optional[int] is the    *)
(* set {} (None) or {k}.                                                   *)
(***************************************************************************)
EXTENDS Integers, Sequences, FiniteSets, TLC

VARIABLES
    hosts,              \* the host event forest: hosts[id] = [parent, start, end]
    devs,               \* kineto_results.events(): the device-side records
    pc,                 \* position in BasicEvaluation.__init__
    stack,              \* compute_self_time's work stack (host ids)
    metrics,            \* self.metrics: id -> EventMetrics
    keys,               \* insertion order of self.metrics (dict order)
    events,             \* self.events: host ids sorted by start_time_ns
    cuda_events,        \* self.cuda_events
    kernel_mapping,     \* launch position -> {} or {kernel index}
    queue_depth_list,   \* self.queue_depth_list
    idle_intervals,     \* compute_idle_time's idle_intervals
    rank,               \* what the last rank_events call computed
    probe               \* a direct call of intervals_overlap

vars == <<hosts, devs, pc, stack, metrics, keys, events, cuda_events,
          kernel_mapping, queue_depth_list, idle_intervals, rank, probe>>

----------------------------------------------------------------------------
(* Generic helpers *)

Min(a, b) == IF a <= b THEN a ELSE b

Max(a, b) == IF a >= b THEN a ELSE b

\* The list with entries e(1), ..., e(n), built once.
List(f) == f \o <<>>

RECURSIVE SumSeq(_)
SumSeq(s) == IF s = <<>> THEN 0 ELSE Head(s) + SumSeq(Tail(s))

\* Python's sorted(): stable, ascending.  ks is the sequence of sort keys;
\* the result lists the positions of ks in sorted order.
SortedPositions(ks) ==
    LET n == Len(ks)
        Before(i) == {j \in 1..n : ks[j] < ks[i] \/ (ks[j] = ks[i] /\ j < i)}
    IN  List([p \in 1..n |-> CHOOSE i \in 1..n : Cardinality(Before(i)) = p - 1])

SortByKey(s, ks) ==
    LET perm == SortedPositions(ks) IN List([p \in 1..Len(s) |-> s[perm[p]]])

----------------------------------------------------------------------------
(* Interval and EventMetrics *)

Interval(s, e, q) == [start |-> s, end |-> e, queue_depth |-> q]

EventMetrics(d, s) ==
    [duration_time_ns |-> d, self_time_ns |-> s, idle_time_ns |-> 0, queue_depth |-> 0]

----------------------------------------------------------------------------
(* Host events *)

duration_time_ns(h) == h.end - h.start

Children(hs, id) == {c \in DOMAIN hs : hs[c].parent = id}

\* curr_event.children, in order; experimental_event_tree() for id = 0
ChildList(hs, id) ==
    LET cs == Children(hs, id)
        ids == [i \in DOMAIN hs |-> i]
    IN  SelectSeq(ids, LAMBDA c : c \in cs)

----------------------------------------------------------------------------
(* EventKey.intervals_overlap *)

\* ClippedEnd without the clipping of lines 51-53.
ClippedEndUnclipped(sorted, p) == sorted[p].end

\* Lines 51-53: the end of the interval at sorted position p after the
\* clipping test against its successor's start.
ClippedEnd(sorted, p) ==
    IF p + 1 <= Len(sorted) /\ sorted[p].end > sorted[p + 1].start
    THEN sorted[p + 1].start
    ELSE sorted[p].end

OverlapStart(ev, iv) == Max(ev.start, iv.start)

\* OverlapEnd without the bound of the event's own end.
OverlapEndOfInterval(ev, iv) == iv.end

OverlapEnd(ev, iv) == Min(ev.end, iv.end)

\* Lines 54-58: what one (already clipped) interval adds to overlap_time.
OverlapOf(ev, iv) ==
    IF OverlapStart(ev, iv) < OverlapEnd(ev, iv)
    THEN OverlapEnd(ev, iv) - OverlapStart(ev, iv)
    ELSE 0

\* The sorted copy of line 49 holds the caller's Interval objects, so the
\* assignment of line 53 changes the caller's list too: the result is the
\* returned overlap_time together with the caller's list as the call leaves it.
\* `sorted` is the list of line 49 with every end as the loop leaves it.
intervals_overlap(ev, intervals) ==
    LET n      == Len(intervals)
        perm   == SortedPositions(List([i \in 1..n |-> intervals[i].start]))
        sorted == List([p \in 1..n |-> intervals[perm[p]]])
        after  == List([p \in 1..n |-> [sorted[p] EXCEPT !.end = ClippedEnd(sorted, p)]])
        posOf(i) == CHOOSE p \in 1..n : perm[p] = i
    IN  [overlap_time |-> SumSeq(List([p \in 1..n |-> OverlapOf(ev, after[p])])),
         sorted       |-> after,
         intervals    |-> List([i \in 1..n |-> after[posOf(i)]])]

----------------------------------------------------------------------------
(* index_of_first_match and argmax *)

\* index_of_first_match(seq, predicate, start) with end = None; test[k + 1]
\* is predicate(seq[k]).
index_of_first_match(test, start) ==
    LET hits == {k \in start..(Len(test) - 1) : test[k + 1]}
    IN  IF hits = {} THEN {} ELSE {CHOOSE k \in hits : \A m \in hits : k <= m}

\* argmax(seq, start=start, end=end) with the identity key: the first index
\* of the maximum of seq[start:end], or None for an empty slice.
argmax(seq, start, end) ==
    LET idx == {k \in start..(Min(end, Len(seq)) - 1) : k >= 0}
        top == {k \in idx : \A m \in idx : seq[m + 1] <= seq[k + 1]}
    IN  IF idx = {} THEN {} ELSE {CHOOSE k \in top : \A m \in top : k <= m}

----------------------------------------------------------------------------
(* BasicEvaluation.compute_queue_depth *)

\* start_us() * 1000 and (start_us() + duration_us()) * 1000
UsToNs == 1000

NameHasMem(name) == name \in {"Memcpy DtoH", "Memset"}

is_cuda_launch_kernel(e) == e.name = "cudaLaunchKernel"

\* is_cuda_kernel without the test of the name.
is_cuda_kernel_any_name(e) == e.device_type = "CUDA"

is_cuda_kernel(e) == e.device_type = "CUDA" /\ ~NameHasMem(e.name)

SortByStartUs(es) == SortByKey(es, List([i \in 1..Len(es) |-> es[i].start_us]))

cuda_launch_events(ds) == SortByStartUs(SelectSeq(ds, is_cuda_launch_kernel))

cuda_kernel_events(ds) == SortByStartUs(SelectSeq(ds, is_cuda_kernel))

\* Line 134: the cursor the next launch's search starts from.
NextSearchStart(index, last_mapped_kernel) ==
    IF index # {} THEN CHOOSE k \in index : TRUE ELSE last_mapped_kernel

\* Lines 125-134, from launch position i on: the mapping built so far is acc.
RECURSIVE MapLaunches(_, _, _, _, _)
MapLaunches(launches, kernels, i, last_mapped_kernel, acc) ==
    IF i > Len(launches) THEN acc
    ELSE LET same  == [k \in 1..Len(kernels) |->
                         kernels[k].linked_correlation_id
                             = launches[i].linked_correlation_id]
             index == index_of_first_match(same, last_mapped_kernel)
         IN  MapLaunches(launches, kernels, i + 1,
                         NextSearchStart(index, last_mapped_kernel),
                         Append(acc, index))

KernelMapping(launches, kernels) == MapLaunches(launches, kernels, 1, 0, <<>>)

DeviceStartNs(e) == e.start_us * UsToNs

DeviceEndNs(e) == (e.start_us + e.duration_us) * UsToNs

\* Line 139: cuda_launch_events + cuda_kernel_events + self.events, each entry
\* tagged with where it came from (at = its position in that list, or the id
\* of the host event).
AllEvents(launches, kernels, hs, evs) ==
    [i \in 1..Len(launches) |->
        [from |-> "launch", at |-> i, start |-> DeviceStartNs(launches[i]),
         end |-> DeviceEndNs(launches[i])]]
    \o [i \in 1..Len(kernels) |->
        [from |-> "kernel", at |-> i, start |-> DeviceStartNs(kernels[i]),
         end |-> DeviceEndNs(kernels[i])]]
    \o [i \in 1..Len(evs) |->
        [from |-> "host", at |-> evs[i], start |-> hs[evs[i]].start,
         end |-> hs[evs[i]].end]]

\* Lines 163-166: the while loop over current_kernel_index.
RECURSIVE AdvanceKernelIndex(_, _, _)
AdvanceKernelIndex(kernels, current_kernel_index, start_time) ==
    IF /\ current_kernel_index < Len(kernels)
       /\ DeviceStartNs(kernels[current_kernel_index + 1]) <= start_time
    THEN AdvanceKernelIndex(kernels, current_kernel_index + 1, start_time)
    ELSE current_kernel_index

\* Line 137
InitialSpawnedKernelIndex == -1

\* Line 167
QueueDepth(spawned_kernel_index, current_kernel_index) ==
    spawned_kernel_index - current_kernel_index + 1

\* SpawnedAfter that never takes up the launch's kernel.
SpawnedAfterIgnoringLaunch(ev, mapping, spawned_kernel_index) == spawned_kernel_index

\* Lines 156-158: "event in kernel_mapping" holds of the launch events only
\* (no record of the traces modelled is both a launch and a kernel).
SpawnedAfter(ev, mapping, spawned_kernel_index) ==
    IF ev.from = "launch" /\ mapping[ev.at] # {}
    THEN CHOOSE k \in mapping[ev.at] : TRUE
    ELSE spawned_kernel_index

\* Lines 150-173, from position i of the sorted all_events on.
RECURSIVE Sweep(_, _, _, _, _, _, _, _)
Sweep(all, kernels, mapping, i, current_kernel_index, spawned_kernel_index, qdl, hostqd) ==
    IF i > Len(all) THEN [queue_depth_list |-> qdl, host_queue_depth |-> hostqd]
    ELSE LET ev      == all[i]
             spawned == IF ev.from = "host" THEN spawned_kernel_index
                        ELSE SpawnedAfter(ev, mapping, spawned_kernel_index)
             current == AdvanceKernelIndex(kernels, current_kernel_index, ev.start)
             depth   == QueueDepth(spawned, current)
         IN  IF ev.from = "host"
             THEN Sweep(all, kernels, mapping, i + 1, current, spawned, qdl,
                        (ev.at :> depth) @@ hostqd)
             ELSE Sweep(all, kernels, mapping, i + 1, current, spawned,
                        Append(qdl, Interval(ev.start, ev.end, depth)), hostqd)

compute_queue_depth(hs, ds, evs) ==
    LET launches == cuda_launch_events(ds)
        kernels  == cuda_kernel_events(ds)
        mapping  == KernelMapping(launches, kernels)
        unsorted == AllEvents(launches, kernels, hs, evs)
        all      == SortByKey(unsorted, List([i \in 1..Len(unsorted) |-> unsorted[i].start]))
        swept    == Sweep(all, kernels, mapping, 1, 0, InitialSpawnedKernelIndex,
                          <<>>, <<>>)
    IN  [cuda_events      |-> SortByStartUs(launches \o kernels),
         kernel_mapping   |-> mapping,
         queue_depth_list |-> swept.queue_depth_list,
         host_queue_depth |-> swept.host_queue_depth]

----------------------------------------------------------------------------
(* BasicEvaluation.compute_idle_time *)

\* Lines 185-191: the two boundary intervals.
BoundaryIdleIntervals(hs, evs, qdl) ==
    IF qdl # <<>> /\ evs # <<>>
    THEN << Interval(hs[evs[1]].start, qdl[1].start, 0),
            Interval(qdl[Len(qdl)].end, hs[evs[Len(evs)]].end, 0) >>
    ELSE <<>>

\* Lines 193-199, from data point i on.
RECURSIVE IdleScan(_, _, _, _, _)
IdleScan(qdl, i, idle, idle_start, acc) ==
    IF i > Len(qdl) THEN acc
    ELSE LET dp     == qdl[i]
             opens  == dp.queue_depth = 0 /\ ~idle
             idle1  == idle \/ opens
             start1 == IF opens THEN dp.end ELSE idle_start
             closes == dp.queue_depth > 0 /\ idle1
         IN  IdleScan(qdl, i + 1, idle1 /\ ~closes, start1,
                      IF closes THEN Append(acc, Interval(start1, dp.start, 0))
                      ELSE acc)

IdleIntervals(hs, evs, qdl) ==
    IdleScan(qdl, 1, FALSE, 0, BoundaryIdleIntervals(hs, evs, qdl))

\* Lines 201-204, from key position i on: every call of intervals_overlap is
\* handed the list as the call before it left it.
RECURSIVE AttributeIdle(_, _, _, _, _)
AttributeIdle(hs, ks, i, intervals, m) ==
    IF i > Len(ks) THEN [metrics |-> m, idle_intervals |-> intervals]
    ELSE LET r == intervals_overlap(hs[ks[i]], intervals)
         IN  AttributeIdle(hs, ks, i + 1, r.intervals,
                           [m EXCEPT ![ks[i]].idle_time_ns = r.overlap_time])

----------------------------------------------------------------------------
(* BasicEvaluation.rank_events *)

\* Line 222 and line 226: a depth at which a window may start or end.
LowDepth == 1

\* Line 231
DrainThreshold == 3

Reverse(s) == List([i \in 1..Len(s) |-> s[Len(s) + 1 - i]])

\* Lines 225-236: the inner loop from j on, for the window start i.  The
\* result is {} (the loop ran out) or the window it broke on.
RECURSIVE InnerScan(_, _, _)
InnerScan(qd_values, i, j) ==
    IF j > Len(qd_values) - 1 THEN {}
    ELSE IF qd_values[j + 1] <= LowDepth
         THEN LET peak_idx == argmax(qd_values, i + 1, j)
              IN  IF peak_idx = {} THEN InnerScan(qd_values, i, j + 1)
                  ELSE LET pk == CHOOSE k \in peak_idx : TRUE
                       IN  IF qd_values[pk + 1] - qd_values[i + 1] > DrainThreshold
                           THEN {[i |-> i, j |-> j, peak_idx |-> pk]}
                           ELSE InnerScan(qd_values, i, j + 1)
         ELSE InnerScan(qd_values, i, j + 1)

\* Line 221: "for i in range(...)" binds i to the range's next item at every
\* iteration, whatever the body (line 235, i = j) last assigned to it.
NextScanIndex(item, i_after_body) == item + 1

\* Lines 221-236, from the range item on: the windows matched, in order.
RECURSIVE OuterScan(_, _, _)
OuterScan(qd_values, item, acc) ==
    IF item > Len(qd_values) - 2 THEN acc
    ELSE LET hit == IF qd_values[item + 1] <= LowDepth
                    THEN InnerScan(qd_values, item, item + 1)
                    ELSE {}
             i_after_body == IF hit = {} THEN item ELSE (CHOOSE w \in hit : TRUE).j
         IN  OuterScan(qd_values, NextScanIndex(item, i_after_body),
                       IF hit = {} THEN acc ELSE Append(acc, CHOOSE w \in hit : TRUE))

DrainWindows(qdl) ==
    LET reversed == Reverse(qdl)
    IN  OuterScan(List([i \in 1..Len(qdl) |-> reversed[i].queue_depth]), 0, <<>>)

\* Lines 232-234: the decrease interval of a matched window.
DecreaseIntervalOf(qdl, w) ==
    Interval(Reverse(qdl)[w.peak_idx + 1].start, Reverse(qdl)[w.i + 1].start, 0)

\* Lines 239-242, from key position i on; a nonzero overlap is truthy.
RECURSIVE FilterEvents(_, _, _, _, _)
FilterEvents(hs, ks, i, intervals, acc) ==
    IF i > Len(ks) THEN acc
    ELSE LET r == intervals_overlap(hs[ks[i]], intervals)
         IN  FilterEvents(hs, ks, i + 1, r.intervals,
                          IF r.overlap_time # 0 THEN Append(acc, ks[i]) ELSE acc)

\* Lines 251-254: (x - mean(x)) / std(x) over float32 tensors, for entry i.
\* With n entries of sum S, x[i] - mean is (n*x[i] - S)/n and torch.std (the
\* unbiased estimator) is sqrt(V / (n*n*(n-1))) for V the sum of the squares
\* (n*x[k] - S)^2.  One entry gives std = 0/0 = NaN; equal entries give
\* std = 0 and x[i] - mean = 0, and 0/0 = NaN.  Otherwise the quotient is
\* num * sqrt(n-1) / sqrt(var), kept as the exact pair (num, var): the values
\* modelled are integers below 2^24, which float32 holds exactly.
StandardScore(xs, i) ==
    LET n == Len(xs)
        S == SumSeq(xs)
        V == SumSeq(List([k \in 1..n |-> (n * xs[k] - S) * (n * xs[k] - S)]))
    IN  IF n < 2 \/ V = 0 THEN [nan |-> TRUE, num |-> 0, var |-> 0]
        ELSE [nan |-> FALSE, num |-> n * xs[i] - S, var |-> V]

SignedSquare(x, v) == IF x >= 0 THEN x * x * v ELSE -(x * x * v)

\* Line 255 and the comparison sorted() makes of two heuristic scores:
\* gain[i] + self[i] > gain[j] + self[j].  Any comparison with NaN is False.
ScoreGreater(gain, selfs, i, j) ==
    IF gain[i].nan \/ selfs[i].nan \/ gain[j].nan \/ selfs[j].nan THEN FALSE
    ELSE SignedSquare(gain[i].num - gain[j].num, selfs[i].var)
            > SignedSquare(selfs[j].num - selfs[i].num, gain[i].var)

\* Lines 258-263: sorted(..., reverse=True) is stable, entries that compare
\* equal (neither greater) keep their order.
SortByScore(list, gain, selfs) ==
    LET n == Len(list)
        Before(i) == {j \in 1..n :
                        \/ ScoreGreater(gain, selfs, j, i)
                        \/ (~ScoreGreater(gain, selfs, i, j) /\ j < i)}
    IN  List([p \in 1..n |-> list[CHOOSE i \in 1..n : Cardinality(Before(i)) = p - 1]])

\* event_list[:length] for length >= 0
Truncate(list, length) == SubSeq(list, 1, Min(length, Len(list)))

rank_events(hs, m, ks, qdl, length) ==
    LET windows   == DrainWindows(qdl)
        decrease  == List([k \in 1..Len(windows) |-> DecreaseIntervalOf(qdl, windows[k])])
        survivors == FilterEvents(hs, ks, 1, decrease, <<>>)
        n         == Len(survivors)
        self_time == List([k \in 1..n |-> m[survivors[k]].self_time_ns])
        idle_time == List([k \in 1..n |-> m[survivors[k]].idle_time_ns])
        gain      == List([k \in 1..n |-> StandardScore(idle_time, k)])
        selfs     == List([k \in 1..n |-> StandardScore(self_time, k)])
    IN  [called            |-> TRUE,
         length            |-> length,
         windows           |-> windows,
         decrease_interval |-> decrease,
         survivors         |-> survivors,
         normalized_gain   |-> gain,
         normalized_self   |-> selfs,
         event_list        |-> IF n = 0 THEN <<>>
                               ELSE Truncate(SortByScore(survivors, gain, selfs), length)]

----------------------------------------------------------------------------
(* BasicEvaluation.compute_self_time *)

\* SelfTime that subtracts no child.
DurationAsSelfTime(hs, id) == duration_time_ns(hs[id])

\* Lines 85-88: the duration less every direct child's duration.
SelfTime(hs, id) ==
    LET children == ChildList(hs, id)
    IN  duration_time_ns(hs[id])
            - SumSeq(List([k \in 1..Len(children) |-> duration_time_ns(hs[children[k]])]))

----------------------------------------------------------------------------
(* Traces *)

SeqsUpTo(S, n) == UNION {[1..k -> S] : k \in 0..n}

\* Host spans over a set of instants (ns); an event may take no time.
Spans(times) == {sp \in [start : times, end : times] : sp.start <= sp.end}

ProperSpans(times) == {sp \in Spans(times) : sp.start < sp.end}

\* Forests of at most n host events with spans among `spans`; a child lies
\* within its parent's span and has a larger id than its parent.
RECURSIVE Forests(_, _)
Forests(n, spans) ==
    IF n = 0 THEN {<<>>}
    ELSE LET smaller == Forests(n - 1, spans)
             full    == {f \in smaller : Len(f) = n - 1}
             Fits(f, p, sp) == p = 0 \/ (f[p].start <= sp.start /\ sp.end <= f[p].end)
         IN  smaller \cup
             UNION {{Append(f, [parent |-> x[1], start |-> x[2].start, end |-> x[2].end]) :
                        x \in {y \in (0..(n - 1)) \X spans : Fits(f, y[1], y[2])}} :
                    f \in full}

Launch == [name |-> "cudaLaunchKernel", device_type |-> "CPU"]

Kernel == [name |-> "gemm", device_type |-> "CUDA"]

Memcpy == [name |-> "Memcpy DtoH", device_type |-> "CUDA"]

DeviceEvent(kind, start, duration, correlation) ==
    [name |-> kind.name, device_type |-> kind.device_type, start_us |-> start,
     duration_us |-> duration, linked_correlation_id |-> correlation]

DeviceEvents(kinds, starts, durations, correlations) ==
    {DeviceEvent(k, s, d, c) :
        k \in kinds, s \in starts, d \in durations, c \in correlations}

NoRank ==
    [called |-> FALSE, length |-> 0, windows |-> <<>>, decrease_interval |-> <<>>,
     survivors |-> <<>>, normalized_gain |-> <<>>, normalized_self |-> <<>>,
     event_list |-> <<>>]

NoProbe == [called |-> FALSE, ev |-> [start |-> 0, end |-> 0], given |-> <<>>,
            intervals |-> <<>>, sorted |-> <<>>, overlap_time |-> 0]

\* BasicEvaluation(prof) is entered with the trace prof holds: line 80 has
\* put the roots of the forest on the stack.
InitTrace(forests, devices) ==
    /\ hosts \in forests
    /\ devs \in devices
    /\ pc = "self_time"
    /\ stack = ChildList(hosts, 0)
    /\ metrics = <<>>
    /\ keys = <<>>
    /\ events = <<>>
    /\ cuda_events = <<>>
    /\ kernel_mapping = <<>>
    /\ queue_depth_list = <<>>
    /\ idle_intervals = <<>>
    /\ rank = NoRank
    /\ probe = NoProbe

----------------------------------------------------------------------------
(* The steps of BasicEvaluation.__init__ and the calls of rank_events *)

\* One iteration of the loop of lines 83-95.
SelfTimeStep ==
    /\ pc = "self_time"
    /\ stack # <<>>
    /\ LET curr_event == stack[Len(stack)]
       IN  /\ stack' = SubSeq(stack, 1, Len(stack) - 1) \o ChildList(hosts, curr_event)
           /\ metrics' = (curr_event :>
                            EventMetrics(duration_time_ns(hosts[curr_event]),
                                         SelfTime(hosts, curr_event))) @@ metrics
           /\ keys' = Append(keys, curr_event)
    /\ UNCHANGED <<hosts, devs, pc, events, cuda_events, kernel_mapping,
                   queue_depth_list, idle_intervals, rank, probe>>

\* Lines 68-71, once the loop of compute_self_time has ended.
SortEventKeys ==
    /\ pc = "self_time"
    /\ stack = <<>>
    /\ events' = SortByKey(keys, List([i \in 1..Len(keys) |-> hosts[keys[i]].start]))
    /\ cuda_events' = <<>>
    /\ pc' = "queue_depth"
    /\ UNCHANGED <<hosts, devs, stack, metrics, keys, kernel_mapping,
                   queue_depth_list, idle_intervals, rank, probe>>

\* Line 72
ComputeQueueDepth ==
    /\ pc = "queue_depth"
    /\ LET r == compute_queue_depth(hosts, devs, events)
       IN  /\ cuda_events' = r.cuda_events
           /\ kernel_mapping' = r.kernel_mapping
           /\ queue_depth_list' = r.queue_depth_list
           /\ metrics' = [id \in DOMAIN metrics |->
                            [metrics[id] EXCEPT !.queue_depth = r.host_queue_depth[id]]]
    /\ pc' = "idle_time"
    /\ UNCHANGED <<hosts, devs, stack, keys, events, idle_intervals, rank, probe>>

\* Line 73, compute_idle_time to line 199: the idle intervals.
BuildIdleIntervals ==
    /\ pc = "idle_time"
    /\ idle_intervals' = IdleIntervals(hosts, events, queue_depth_list)
    /\ pc' = "idle_attribution"
    /\ UNCHANGED <<hosts, devs, stack, metrics, keys, events, cuda_events,
                   kernel_mapping, queue_depth_list, rank, probe>>

\* compute_idle_time, lines 201-204: every event's idle time.
AttributeIdleTime ==
    /\ pc = "idle_attribution"
    /\ LET r == AttributeIdle(hosts, keys, 1, idle_intervals, metrics)
       IN  /\ metrics' = r.metrics
           /\ idle_intervals' = r.idle_intervals
    /\ pc' = "constructed"
    /\ UNCHANGED <<hosts, devs, stack, keys, events, cuda_events, kernel_mapping,
                   queue_depth_list, rank, probe>>

MaxLength == 2

RankEvents ==
    /\ pc = "constructed"
    /\ \E length \in 0..MaxLength :
          rank' = rank_events(hosts, metrics, keys, queue_depth_list, length)
    /\ UNCHANGED <<hosts, devs, pc, stack, metrics, keys, events, cuda_events,
                   kernel_mapping, queue_depth_list, idle_intervals, probe>>

Next ==
    \/ SelfTimeStep
    \/ SortEventKeys
    \/ ComputeQueueDepth
    \/ BuildIdleIntervals
    \/ AttributeIdleTime
    \/ RankEvents

----------------------------------------------------------------------------
(* Specifications: the same program over different families of traces *)

\* Instants on a 10 us grid; host times are in ns.
GridNs == {0, 10000, 20000, 30000}

MaxHosts == 2

MaxDevices == 3

\* Launches at 0 and 20 us, kernels at 0, 20 and 30 us, each 10 us long, and
\* one launch of 30 us; correlation 2 is a launch whose kernel the trace does
\* not hold.
TraceDevices ==
    {DeviceEvent(Launch, 0, 10, 1), DeviceEvent(Launch, 0, 10, 2),
     DeviceEvent(Launch, 0, 30, 2), DeviceEvent(Launch, 20, 10, 1),
     DeviceEvent(Kernel, 0, 10, 1), DeviceEvent(Kernel, 20, 10, 1),
     DeviceEvent(Kernel, 30, 10, 1)}

\* Any trace of at most MaxHosts host events and MaxDevices device events.
Init ==
    InitTrace(Forests(MaxHosts, ProperSpans(GridNs)),
              SeqsUpTo(TraceDevices, MaxDevices))

Spec == Init /\ [][Next]_vars

MaxTreeHosts == 3

MaxCopies == 1

\* Traces without launch or kernel events: deeper forests, and device
\* records that are memory operations only.
InitTree ==
    InitTrace(Forests(MaxTreeHosts, Spans({0, 10000, 20000})),
              SeqsUpTo({DeviceEvent(Memcpy, 10, 10, 1)}, MaxCopies))

SpecTree == InitTree /\ [][Next]_vars

MaxDrainLaunches == 3

MaxDrainKernels == 4

\* Traces whose queue depth climbs and drains: up to MaxDrainLaunches launches
\* at 0 and 30 us and MaxDrainKernels kernels at 10 and 20 us (listed by
\* events() in start order), under at most one host event.
DrainDevices ==
    {ls \o ks :
        ls \in SeqsUpTo({DeviceEvent(Launch, 0, 10, 1), DeviceEvent(Launch, 0, 10, 2),
                         DeviceEvent(Launch, 30, 10, 1)}, MaxDrainLaunches),
        ks \in {k \in [1..MaxDrainKernels -> DeviceEvents({Kernel}, {10, 20}, {10}, {1, 2})] :
                   \A i \in 1..(MaxDrainKernels - 1) : k[i].start_us <= k[i + 1].start_us}}

InitDrain == InitTrace(Forests(1, ProperSpans({0, 20000, 30000})), DrainDevices)

SpecDrain == InitDrain /\ [][Next]_vars

----------------------------------------------------------------------------
(* A direct call of EventKey.intervals_overlap *)

MaxIntervals == 3

ProbeTimes == {0, 50, 100, 150}

\* Every interval with start <= end over ProbeTimes, and two that end before
\* they start (compute_idle_time builds such intervals too).
ProbeIntervals ==
    {Interval(sp.start, sp.end, 0) : sp \in Spans(ProbeTimes)}
        \cup {Interval(100, 50, 0), Interval(150, 0, 0)}

InitProbe ==
    /\ hosts = <<>>
    /\ devs = <<>>
    /\ pc = "probe"
    /\ stack = <<>>
    /\ metrics = <<>>
    /\ keys = <<>>
    /\ events = <<>>
    /\ cuda_events = <<>>
    /\ kernel_mapping = <<>>
    /\ queue_depth_list = <<>>
    /\ idle_intervals = <<>>
    /\ rank = NoRank
    /\ \E ev \in ProperSpans(ProbeTimes), given \in SeqsUpTo(ProbeIntervals, MaxIntervals) :
          probe = [called |-> FALSE, ev |-> ev, given |-> given, intervals |-> given,
                   sorted |-> <<>>, overlap_time |-> 0]

\* EventKey(ev).intervals_overlap(intervals), on the list as the call before
\* left it.
CallIntervalsOverlap ==
    /\ pc = "probe"
    /\ LET r == intervals_overlap(probe.ev, probe.intervals)
       IN  probe' = [probe EXCEPT !.called = TRUE, !.intervals = r.intervals,
                                  !.sorted = r.sorted, !.overlap_time = r.overlap_time]
    /\ UNCHANGED <<hosts, devs, pc, stack, metrics, keys, events, cuda_events,
                   kernel_mapping, queue_depth_list, idle_intervals, rank>>

SpecProbe == InitProbe /\ [][CallIntervalsOverlap]_vars

----------------------------------------------------------------------------
(* Properties *)

RECURSIVE SumOf(_, _)
SumOf(f, S) ==
    IF S = {} THEN 0
    ELSE LET x == CHOOSE y \in S : TRUE IN f[x] + SumOf(f, S \ {x})

HostIds == DOMAIN hosts

SpanLength(h) == h.end - h.start

\* The length of the part of [h.start, h.end) that lies in [s, e).
Covered(h, s, e) ==
    IF Max(h.start, s) < Min(h.end, e) THEN Min(h.end, e) - Max(h.start, s) ELSE 0

SelfTimeDone == pc # "self_time"

Constructed == pc = "constructed"

\* C1: once compute_self_time has run, every event of the forest, at any
\* depth, has a metrics record; its duration_time_ns is the event's duration
\* and its self_time_ns plus the durations of its direct children is its
\* duration_time_ns.
SelfTimeConservation ==
    SelfTimeDone =>
        \A id \in HostIds :
            /\ id \in DOMAIN metrics
            /\ metrics[id].duration_time_ns = SpanLength(hosts[id])
            /\ metrics[id].self_time_ns
                   + SumOf([c \in HostIds |-> SpanLength(hosts[c])], Children(hosts, id))
                 = metrics[id].duration_time_ns

\* A forest three levels deep whose root has lost time to its child.
SelfTimeWitness ==
    /\ Constructed
    /\ \E a, b, c \in HostIds :
          /\ hosts[a].parent = 0 /\ hosts[b].parent = a /\ hosts[c].parent = b
          /\ metrics[a].self_time_ns > 0
          /\ metrics[a].self_time_ns < metrics[a].duration_time_ns
          /\ metrics[b].self_time_ns < metrics[b].duration_time_ns

\* C2: after construction every host event's idle time is between 0 and its
\* duration, and the duration recorded is end_time_ns - start_time_ns.
IdleWithinDuration ==
    Constructed =>
        \A id \in HostIds :
            /\ metrics[id].duration_time_ns = hosts[id].end - hosts[id].start
            /\ 0 <= metrics[id].idle_time_ns
            /\ metrics[id].idle_time_ns <= metrics[id].duration_time_ns

\* A host event that is idle for part of its span, beside device events.
IdleWithinDurationWitness ==
    /\ Constructed
    /\ Len(queue_depth_list) >= 2
    /\ \E id \in HostIds :
          /\ 0 < metrics[id].idle_time_ns
          /\ metrics[id].idle_time_ns < metrics[id].duration_time_ns

\* Scenario B: one launch [0,10) and its kernel [20,30), in us.
ScenarioB ==
    /\ Len(cuda_launch_events(devs)) = 1
    /\ Len(cuda_kernel_events(devs)) = 1
    /\ \E l \in {cuda_launch_events(devs)[1]}, k \in {cuda_kernel_events(devs)[1]} :
          /\ l.start_us = 0 /\ l.duration_us = 10
          /\ k.start_us = 20 /\ k.duration_us = 10
          /\ l.linked_correlation_id = k.linked_correlation_id

Spanning(h, s, e) == h.start <= s /\ e <= h.end

\* C3 as stated: in Scenario B every host event spanning the gap [10,20) us
\* has its 10 us in idle_time_ns; and the time between the end of any device
\* interval and the start of the next is idle time of the host events
\* spanning it.
GapIsIdle ==
    Constructed =>
        /\ ScenarioB =>
              \A id \in HostIds :
                  Spanning(hosts[id], 10000, 20000) => metrics[id].idle_time_ns >= 10000
        /\ \A i \in 1..(Len(queue_depth_list) - 1), id \in HostIds :
              LET s == queue_depth_list[i].end
                  e == queue_depth_list[i + 1].start
              IN  s < e /\ Spanning(hosts[id], s, e) => metrics[id].idle_time_ns >= e - s

\* Data point i finds queue depth 0 with no idle period open (line 194).
OpensIdle(qdl, i) ==
    /\ qdl[i].queue_depth = 0
    /\ \A m \in 1..(i - 1) :
          qdl[m].queue_depth = 0 => \E c \in (m + 1)..(i - 1) : qdl[c].queue_depth > 0

\* Data point k is the first of positive depth after i.
ClosesIdle(qdl, i, k) ==
    /\ i < k
    /\ qdl[k].queue_depth > 0
    /\ \A m \in (i + 1)..(k - 1) : qdl[m].queue_depth <= 0

DeviceIntervalsDisjoint(qdl) ==
    \A m \in 1..(Len(qdl) - 1) : qdl[m].end <= qdl[m + 1].start

\* C3 as amended: in Scenario B the launch's interval has queue depth 1 and the
\* kernel's queue depth 0, so the gap [10,20) us is no idle interval and a
\* host event within [0,30] us has idle_time_ns 0; where device intervals do
\* not overlap, the time from the end of an interval at which the queue depth
\* becomes 0 to the start of the next interval of positive depth is idle time
\* of every host event spanning it.
GapIsIdleAfterDepthZero ==
    Constructed =>
        /\ ScenarioB =>
              /\ queue_depth_list = << Interval(0, 10000, 1), Interval(20000, 30000, 0) >>
              /\ \A id \in HostIds :
                    Spanning([start |-> 0, end |-> 30000], hosts[id].start, hosts[id].end)
                        => metrics[id].idle_time_ns = 0
        /\ DeviceIntervalsDisjoint(queue_depth_list) =>
              \A i, k \in 1..Len(queue_depth_list), id \in HostIds :
                  LET s == queue_depth_list[i].end
                      e == queue_depth_list[k].start
                  IN  /\ OpensIdle(queue_depth_list, i)
                      /\ ClosesIdle(queue_depth_list, i, k)
                      /\ s < e
                      /\ Spanning(hosts[id], s, e)
                      => metrics[id].idle_time_ns >= e - s

\* Scenario B under a host event that spans the gap.
ScenarioBWitness ==
    /\ Constructed
    /\ ScenarioB
    /\ \E id \in HostIds :
          Spanning(hosts[id], 10000, 20000) /\ metrics[id].idle_time_ns = 0

\* A gap after a depth-0 interval, counted for a host event spanning it.
IdleGapWitness ==
    /\ Constructed
    /\ DeviceIntervalsDisjoint(queue_depth_list)
    /\ \E i, k \in 1..Len(queue_depth_list), id \in HostIds :
          /\ OpensIdle(queue_depth_list, i)
          /\ ClosesIdle(queue_depth_list, i, k)
          /\ queue_depth_list[i].end < queue_depth_list[k].start
          /\ Spanning(hosts[id], queue_depth_list[i].end, queue_depth_list[k].start)
          /\ metrics[id].idle_time_ns = queue_depth_list[k].start - queue_depth_list[i].end

SetMin(S) == CHOOSE x \in S : \A y \in S : x <= y

SetMax(S) == CHOOSE x \in S : \A y \in S : x >= y

\* C4 as stated: when there are device intervals (and host events), the idle
\* intervals compute_idle_time starts from are [earliest host start, first
\* device start) and [latest device end, latest host end).
BoundaryCoverage ==
    pc = "idle_attribution" /\ queue_depth_list # <<>> /\ hosts # <<>> =>
        /\ Len(idle_intervals) >= 2
        /\ idle_intervals[1] =
              Interval(SetMin({hosts[id].start : id \in HostIds}),
                       SetMin({queue_depth_list[i].start : i \in DOMAIN queue_depth_list}), 0)
        /\ idle_intervals[2] =
              Interval(SetMax({queue_depth_list[i].end : i \in DOMAIN queue_depth_list}),
                       SetMax({hosts[id].end : id \in HostIds}), 0)

\* C5: after the clipping pass of intervals_overlap the intervals, sorted by
\* start, do not overlap (each ends no later than the next starts), so the
\* overlap returned is at most the event's span; [0,100) and [50,150) become
\* [0,50) and [50,150), and an event spanning [0,150) gets overlap 150.
ClippedIntervalsDisjoint ==
    probe.called =>
        /\ Len(probe.sorted) = Len(probe.given)
        /\ \A p \in 1..(Len(probe.sorted) - 1) :
              /\ probe.sorted[p].start <= probe.sorted[p + 1].start
              /\ probe.sorted[p].end <= probe.sorted[p + 1].start
        /\ probe.overlap_time <= probe.ev.end - probe.ev.start
        /\ probe.given = << Interval(0, 100, 0), Interval(50, 150, 0) >> =>
              /\ probe.sorted = << Interval(0, 50, 0), Interval(50, 150, 0) >>
              /\ probe.ev = [start |-> 0, end |-> 150] => probe.overlap_time = 150

\* Scenario D, called for an event spanning [0,150).
ScenarioDWitness ==
    /\ probe.called
    /\ probe.given = << Interval(0, 100, 0), Interval(50, 150, 0) >>
    /\ probe.ev = [start |-> 0, end |-> 150]
    /\ probe.overlap_time = 150

AllEqual(xs) == \A a, b \in DOMAIN xs : xs[a] = xs[b]

\* C6 as stated: when the survivors of rank_events all have the same idle time
\* (or the same self time), that standard-score term is the number 0 for
\* every survivor, not NaN.
ZeroVarianceScoresZero ==
    rank.called /\ rank.survivors # <<>> =>
        LET n == Len(rank.survivors)
            idle_time == [k \in 1..n |-> metrics[rank.survivors[k]].idle_time_ns]
            self_time == [k \in 1..n |-> metrics[rank.survivors[k]].self_time_ns]
        IN  /\ AllEqual(idle_time) =>
                  \A k \in 1..n : ~rank.normalized_gain[k].nan /\ rank.normalized_gain[k].num = 0
            /\ AllEqual(self_time) =>
                  \A k \in 1..n : ~rank.normalized_self[k].nan /\ rank.normalized_self[k].num = 0

\* The trace holds no launch and no kernel: its device events, if any, are
\* memory operations.
NoDeviceEvents ==
    \A i \in DOMAIN devs :
        /\ devs[i].name # "cudaLaunchKernel"
        /\ devs[i].device_type = "CUDA" => NameHasMem(devs[i].name)

\* C7: with no launch and no kernel event in the trace, the queue-depth list
\* is empty and every host event has queue_depth 0 and idle_time_ns 0.
NoDevicesNoIdle ==
    Constructed /\ NoDeviceEvents =>
        /\ queue_depth_list = <<>>
        /\ \A id \in HostIds :
              /\ id \in DOMAIN metrics
              /\ metrics[id].queue_depth = 0
              /\ metrics[id].idle_time_ns = 0

\* A nested forest beside a memory copy, constructed.
NoDevicesWitness ==
    /\ Constructed
    /\ NoDeviceEvents
    /\ devs # <<>>
    /\ \E a, b \in HostIds : hosts[b].parent = a /\ SpanLength(hosts[b]) > 0
    /\ queue_depth_list = <<>>

\* C8 as stated: no kernel index is mapped to two launches, a mapped kernel
\* has its launch's correlation id, the mapped indices do not decrease in
\* launch order, and a launch with no matching kernel beyond those mapped to
\* earlier launches is unmatched.
MappingOneToOne ==
    pc \notin {"self_time", "queue_depth"} =>
        LET launches == cuda_launch_events(devs)
            kernels  == cuda_kernel_events(devs)
            mapped   == {i \in DOMAIN kernel_mapping : kernel_mapping[i] # {}}
            at(i)    == CHOOSE k \in kernel_mapping[i] : TRUE
        IN  /\ DOMAIN kernel_mapping = DOMAIN launches
            /\ \A a, b \in mapped : a # b => at(a) # at(b)
            /\ \A a \in mapped :
                  kernels[at(a) + 1].linked_correlation_id = launches[a].linked_correlation_id
            /\ \A a, b \in mapped : a < b => at(a) <= at(b)
            /\ \A a \in DOMAIN kernel_mapping :
                  (\A k \in DOMAIN kernels :
                      (\A b \in mapped : b < a => at(b) < k - 1)
                          => kernels[k].linked_correlation_id # launches[a].linked_correlation_id)
                      => kernel_mapping[a] = {}

\* C9 as stated: once a window from index i to index j of the reversed list
\* is recorded, no window is recorded whose start lies strictly between them.
WindowsDoNotNest ==
    rank.called =>
        \A a, b \in DOMAIN rank.windows :
            ~(rank.windows[a].i < rank.windows[b].i /\ rank.windows[b].i < rank.windows[a].j)

\* C10 as stated: the survivors of rank_events are exactly the host events
\* whose span overlaps a recorded decrease interval.
SurvivorsAreOverlapping ==
    rank.called =>
        {rank.survivors[k] : k \in DOMAIN rank.survivors}
            = {id \in HostIds :
                  \E k \in DOMAIN rank.decrease_interval :
                      Covered(hosts[id], rank.decrease_interval[k].start,
                              rank.decrease_interval[k].end) > 0}

\* C11 as stated: every interval of queue_depth_list and every host event's
\* metrics.queue_depth, once compute_queue_depth has run, is at least 0.
QueueDepthNonNegative ==
    pc \notin {"self_time", "queue_depth"} =>
        /\ \A i \in DOMAIN queue_depth_list : queue_depth_list[i].queue_depth >= 0
        /\ \A id \in HostIds : metrics[id].queue_depth >= 0

\* The instants at which the event's span or an interval starts or ends.
Instants(ev, intervals) ==
    {ev.start, ev.end}
        \cup {intervals[k].start : k \in DOMAIN intervals}
        \cup {intervals[k].end : k \in DOMAIN intervals}

\* The stretches between neighbouring instants.
Stretches(pts) ==
    {st \in pts \X pts : st[1] < st[2] /\ ~\E m \in pts : st[1] < m /\ m < st[2]}

\* The length of the part of the event's span that the union of the
\* intervals covers.
UnionCovered(ev, intervals) ==
    LET sts == Stretches(Instants(ev, intervals))
        In(st, a, b) == a <= st[1] /\ st[2] <= b
        hit == {st \in sts :
                   /\ In(st, ev.start, ev.end)
                   /\ \E k \in DOMAIN intervals :
                         In(st, intervals[k].start, intervals[k].end)}
    IN  SumOf([st \in sts |-> st[2] - st[1]], hit)

\* C12 as stated: for intervals with start <= end, in any order, the overlap
\* intervals_overlap returns is the length of the part of the event's span
\* covered by their union.
OverlapIsUnionCoverage ==
    probe.called /\ (\A k \in DOMAIN probe.given : probe.given[k].start <= probe.given[k].end)
        => probe.overlap_time = UnionCovered(probe.ev, probe.given)

====
